---------------------------- MODULE Spec2Model ----------------------------
(***************************************************************************)
(* A model of the DarkGate configuration extractor                         *)
(* (src/darkgate/extractor.py).                                            *)
(*                                                                         *)
(* Python `bytes` and the ASCII-only `str` values the extractor handles    *)
(* are sequences of integers 0..255 (code points).  A Python call that may *)
(* return a value, return None or raise is a record                        *)
(*     [exc |-> name of the exception or "", none |-> BOOLEAN, val |-> v]. *)
(***************************************************************************)
EXTENDS Integers, Sequences, FiniteSets, TLC

VARIABLES
    pc,               \* position in the operation under analysis
    mime,             \* analyze_file: magic.from_buffer(content, mime=True)
    content,          \* analyze_file: the bytes read from the file
    include_strings,  \* analyze_file: the -s / --strings switch
    kind,             \* analyze_file: the branch of the if/elif chain taken
    intermediate,     \* analyze_file: intermediate_payload (or content)
    payload,          \* analyze_file: payload
    strings,          \* analyze_file: result of perform_string_extraction
    config,           \* analyze_file: result of get_config
    exit_code,        \* process exit status, -1 while running
    stdout,           \* the JSON objects printed so far
    trace,            \* the stages invoked so far, in order
    raw,              \* the bytes an encoded argument was made from
    data,             \* argument of the function under analysis
    table,            \* base64_decode: encode_table
    ret               \* result of the function under analysis

vars == <<pc, mime, content, include_strings, kind, intermediate, payload,
          strings, config, exit_code, stdout, trace, raw, data, table, ret>>

pipe == <<mime, content, include_strings, kind, intermediate, payload,
          strings, config, exit_code, stdout, trace>>

(***************************************************************************)
(* Python values.                                                          *)
(***************************************************************************)
Return(v) == [exc |-> "", none |-> FALSE, val |-> v]
None == [exc |-> "", none |-> TRUE, val |-> <<>>]
Raise(e) == [exc |-> e, none |-> TRUE, val |-> <<>>]
Raised(r) == r.exc # ""
\* Python truthiness of an optional bytes / list value.
Truthy(r) == r.exc = "" /\ ~r.none /\ r.val # <<>>

\* Text of the printable ASCII range; the three characters the TLA+ lexer
\* cannot hold in a string (codes 34, 92, 96) are blanks and never looked up.
Printable == " !  $%&'()*+,-./0123456789:;<=>?@ABCDEFGHIJKLMNOPQRSTUVWXYZ[ ]^_ abcdefghijklmnopqrstuvwxyz{|}~"
Ord(c) == 31 + CHOOSE i \in 1..Len(Printable) : SubSeq(Printable, i, i) = c
\* The bytes literal b"...".
B(s) == [i \in 1..Len(s) |-> Ord(SubSeq(s, i, i))]

RECURSIVE Cat(_)
\* Concatenation of a sequence of byte sequences.
Cat(ss) == IF ss = <<>> THEN <<>> ELSE Head(ss) \o Cat(Tail(ss))

Range(s) == {s[i] : i \in 1..Len(s)}

(***************************************************************************)
(* Integer bit operations.                                                 *)
(***************************************************************************)
RECURSIVE BitXor(_, _)
BitXor(a, b) ==
    IF a = 0 THEN b
    ELSE IF b = 0 THEN a
    ELSE (((a % 2) + (b % 2)) % 2) + 2 * BitXor(a \div 2, b \div 2)

RECURSIVE BitOr(_, _)
BitOr(a, b) ==
    IF a = 0 THEN b
    ELSE IF b = 0 THEN a
    ELSE (IF a % 2 = 1 \/ b % 2 = 1 THEN 1 ELSE 0) + 2 * BitOr(a \div 2, b \div 2)

RECURSIVE BitAnd(_, _)
BitAnd(a, b) ==
    IF a = 0 \/ b = 0 THEN 0
    ELSE (IF a % 2 = 1 /\ b % 2 = 1 THEN 1 ELSE 0) + 2 * BitAnd(a \div 2, b \div 2)

RECURSIVE Shl(_, _)
Shl(n, k) == IF k = 0 THEN n ELSE Shl(2 * n, k - 1)

RECURSIVE Shr(_, _)
Shr(n, k) == IF k = 0 THEN n ELSE Shr(n \div 2, k - 1)

(***************************************************************************)
(* Constants of the extractor.                                             *)
(***************************************************************************)
\* bytes.fromhex("4D5A50000200000004000F00FFFF00")
PE_START_BYTES == <<77, 90, 80, 0, 2, 0, 0, 0, 4, 0, 15, 0, 255, 255, 0>>
AU3_MAGIC_BYTES == B("AU3!EA06")

\* {64} of REGEX_B64_ALPHABET_CANDIDATES and {5,} of REGEX_B64_STRINGS.
ALPHABET_LENGTH == 64
MIN_STRING_LENGTH == 5

\* The character class [A-Za-z0-9+/=] of both regular expressions.
B64Class == Range(B("ABCDEFGHIJKLMNOPQRSTUVWXYZabcdefghijklmnopqrstuvwxyz0123456789+/="))

(***************************************************************************)
(* bytes.find(x), bytes.index(x), `x in bytes`.                            *)
(***************************************************************************)
\* 0-based index of the first occurrence of byte c in s, -1 when absent.
FindByte(s, c) ==
    IF \E i \in 1..Len(s) : s[i] = c
    THEN (CHOOSE i \in 1..Len(s) : s[i] = c /\ \A j \in 1..(i - 1) : s[j] # c) - 1
    ELSE -1

MatchAt(s, sub, i) == \A j \in 1..Len(sub) : s[i + j - 1] = sub[j]

Min(S) == CHOOSE x \in S : \A y \in S : x <= y

\* 0-based index of the first occurrence of sub in s, -1 when absent.
Find(s, sub) ==
    LET hits == {i \in 0..(Len(s) - Len(sub)) : MatchAt(s, sub, i + 1)}
    IN  IF hits = {} THEN -1 ELSE Min(hits)

Contains(s, sub) == Find(s, sub) >= 0
StartsWith(s, sub) == Len(sub) <= Len(s) /\ MatchAt(s, sub, 1)

(***************************************************************************)
(* The custom base64 decoder.                                              *)
(***************************************************************************)
\* The loop `for i in range(4)` of base64_decode_block from iteration i
\* with accumulator n; -1 stands for the ValueError of an invalid symbol.
RECURSIVE BlockLoop(_, _, _, _)
BlockLoop(block, encode_table, i, n) ==
    IF i = 4 THEN n
    ELSE LET n1 == Shl(n, 6)
         IN  IF i < Len(block)
             THEN LET b == FindByte(encode_table, block[i + 1])
                  IN  IF b < 0 THEN -1
                      ELSE BlockLoop(block, encode_table, i + 1, BitOr(n1, b))
             ELSE BlockLoop(block, encode_table, i + 1, n1)

\* base64_decode_block emitting the third byte for a block of three symbols.
base64_decode_block_ThreeSymbols(block, encode_table) ==
    IF Len(block) < 2 THEN Raise("ValueError")
    ELSE LET n == BlockLoop(block, encode_table, 0, 0)
         IN  IF n < 0 THEN Raise("ValueError")
             ELSE LET dec_block == <<BitAnd(Shr(n, 16), 255), BitAnd(Shr(n, 8), 255)>>
                  IN  IF Len(block) >= 3
                      THEN Return(dec_block \o <<BitAnd(n, 255)>>)
                      ELSE Return(dec_block)

\* base64_decode_block emitting its first two bytes in the opposite order.
base64_decode_block_Swapped(block, encode_table) ==
    IF Len(block) < 2 THEN Raise("ValueError")
    ELSE LET n == BlockLoop(block, encode_table, 0, 0)
         IN  IF n < 0 THEN Raise("ValueError")
             ELSE LET dec_block == <<BitAnd(Shr(n, 8), 255), BitAnd(Shr(n, 16), 255)>>
                  IN  IF Len(block) >= 4
                      THEN Return(dec_block \o <<BitAnd(n, 255)>>)
                      ELSE Return(dec_block)

base64_decode_block(block, encode_table) ==
    IF Len(block) < 2 THEN Raise("ValueError")
    ELSE LET n == BlockLoop(block, encode_table, 0, 0)
         IN  IF n < 0 THEN Raise("ValueError")
             ELSE LET dec_block == <<BitAnd(Shr(n, 16), 255), BitAnd(Shr(n, 8), 255)>>
                  IN  IF Len(block) >= 4
                      THEN Return(dec_block \o <<BitAnd(n, 255)>>)
                      ELSE Return(dec_block)

\* The loop of base64_decode over the blocks data[i : i + 4] from 0-based
\* offset i with dec_data decoded so far.
RECURSIVE DecodeLoop(_, _, _, _)
DecodeLoop(d, encode_table, i, dec_data) ==
    IF i >= Len(d) THEN Return(dec_data)
    ELSE LET block == SubSeq(d, i + 1, IF i + 4 <= Len(d) THEN i + 4 ELSE Len(d))
             r == base64_decode_block(block, encode_table)
         IN  IF Raised(r) THEN r
             ELSE DecodeLoop(d, encode_table, i + 4, dec_data \o r.val)

base64_decode(d, encode_table) == DecodeLoop(d, encode_table, 0, <<>>)

(***************************************************************************)
(* bytes.decode(): strict UTF-8.                                           *)
(***************************************************************************)
IsCont(s, i) == i <= Len(s) /\ s[i] >= 128 /\ s[i] <= 191

\* The code points of s from 1-based position i on, appended to acc.
\* A run of ASCII bytes is taken in one step.
RECURSIVE Utf8Loop(_, _, _)
Utf8Loop(s, i, acc) ==
    IF i > Len(s) THEN Return(acc)
    ELSE LET b == s[i]
             j == Min({k \in i..(Len(s) + 1) : k > Len(s) \/ s[k] >= 128})
         IN  IF b < 128 THEN Utf8Loop(s, j, acc \o SubSeq(s, i, j - 1))
             ELSE IF b >= 194 /\ b <= 223 /\ IsCont(s, i + 1)
             THEN Utf8Loop(s, i + 2, Append(acc, (b - 192) * 64 + (s[i + 1] - 128)))
             ELSE IF /\ b >= 224 /\ b <= 239
                     /\ IsCont(s, i + 1) /\ IsCont(s, i + 2)
                     /\ (b = 224 => s[i + 1] >= 160)
                     /\ (b = 237 => s[i + 1] <= 159)
             THEN Utf8Loop(s, i + 3, Append(acc,
                      (b - 224) * 4096 + (s[i + 1] - 128) * 64 + (s[i + 2] - 128)))
             ELSE IF /\ b >= 240 /\ b <= 244
                     /\ IsCont(s, i + 1) /\ IsCont(s, i + 2) /\ IsCont(s, i + 3)
                     /\ (b = 240 => s[i + 1] >= 144)
                     /\ (b = 244 => s[i + 1] <= 143)
             THEN Utf8Loop(s, i + 4, Append(acc,
                      (b - 240) * 262144 + (s[i + 1] - 128) * 4096
                      + (s[i + 2] - 128) * 64 + (s[i + 3] - 128)))
             ELSE Raise("UnicodeDecodeError")

Utf8Decode(s) == Utf8Loop(s, 1, <<>>)

\* str.encode("ascii", "ignore"): the code points below 128.
AsciiIgnore(str) == SelectSeq(str, LAMBDA c : c < 128)

(***************************************************************************)
(* The two regular expressions, as re.findall applies them: leftmost,      *)
(* greedy, non-overlapping.                                                *)
(***************************************************************************)
\* Length of the run of class bytes of s starting at 1-based position i.
RunLen(s, i) ==
    Min({k \in i..(Len(s) + 1) : k > Len(s) \/ s[k] \notin B64Class}) - i

\* The first 1-based position at or after i that holds a class byte,
\* Len(s) + 1 when there is none.
NextClass(s, i) ==
    Min({k \in i..(Len(s) + 1) : k > Len(s) \/ s[k] \in B64Class})

\* re.findall(rb"[A-Za-z0-9+/=]{64}", s) from 1-based position i.  No
\* match starts at a byte outside the class or inside a run shorter than
\* 64, so the scan resumes at the next run.
RECURSIVE FindAll64(_, _)
FindAll64(s, i) ==
    IF i > Len(s) THEN <<>>
    ELSE LET r == RunLen(s, i)
         IN  IF r >= ALPHABET_LENGTH
             THEN <<SubSeq(s, i, i + ALPHABET_LENGTH - 1)>>
                  \o FindAll64(s, i + ALPHABET_LENGTH)
             ELSE FindAll64(s, NextClass(s, i + r))

REGEX_B64_ALPHABET_CANDIDATES(s) == FindAll64(s, 1)

\* re.findall(rb"[A-Za-z0-9+/=]{5,}", s) from 1-based position i.
RECURSIVE FindAllRuns(_, _)
FindAllRuns(s, i) ==
    IF i > Len(s) THEN <<>>
    ELSE LET r == RunLen(s, i)
         IN  IF r >= MIN_STRING_LENGTH
             THEN <<SubSeq(s, i, i + r - 1)>> \o FindAllRuns(s, i + r)
             ELSE FindAllRuns(s, NextClass(s, i + r))

REGEX_B64_STRINGS(s) == FindAllRuns(s, 1)

(***************************************************************************)
(* get_alphabet_candidates                                                 *)
(***************************************************************************)
\* sorted(s): position k holds the value v with fewer than k elements
\* below v and at least k elements up to v.
Sorted(s) ==
    LET upto == [v \in Range(s) |-> Cardinality({i \in 1..Len(s) : s[i] <= v})]
        below == [v \in Range(s) |-> Cardinality({i \in 1..Len(s) : s[i] < v})]
    IN  [k \in 1..Len(s) |-> CHOOSE v \in Range(s) : below[v] < k /\ k <= upto[v]]

\* The string literal the sorted candidate is compared with.
SORTED_ALPHABET == B("+0123456789=ABCDEFGHIJKLMNOPQRSTUVWXYZabcdefghijklmnopqrstuvwxyz")

\* IsAlphabet comparing the bytes that occur instead of the sorted bytes.
IsAlphabet_AsSet(candidate) == Range(candidate) \subseteq Range(SORTED_ALPHABET)

IsAlphabet(candidate) == Sorted(candidate) = SORTED_ALPHABET

get_alphabet_candidates(c) ==
    SelectSeq(REGEX_B64_ALPHABET_CANDIDATES(c), IsAlphabet)

(***************************************************************************)
(* decode_strings, perform_string_extraction                               *)
(***************************************************************************)
\* The body of the try block for one string candidate and one alphabet:
\* the list of strings it appends to result (one or none).
TryDecode(s, alphabet) ==
    LET r == base64_decode(s, alphabet)
    IN  IF Raised(r) THEN <<>>
        ELSE LET decoded == Utf8Decode(r.val)
             IN  IF Raised(decoded) THEN <<>>
                 ELSE IF Len(decoded.val) = Len(AsciiIgnore(decoded.val))
                 THEN <<decoded.val>>
                 ELSE <<>>

RECURSIVE DecodeWithEach(_, _)
DecodeWithEach(s, alphabets) ==
    IF alphabets = <<>> THEN <<>>
    ELSE TryDecode(s, Head(alphabets)) \o DecodeWithEach(s, Tail(alphabets))

RECURSIVE DecodeEach(_, _)
DecodeEach(cands, alphabets) ==
    IF cands = <<>> THEN <<>>
    ELSE DecodeWithEach(Head(cands), alphabets) \o DecodeEach(Tail(cands), alphabets)

decode_strings(c, alphabet_candidates) ==
    DecodeEach(REGEX_B64_STRINGS(c), alphabet_candidates)

perform_string_extraction(c) ==
    LET candidates == get_alphabet_candidates(c)
    IN  IF candidates # <<>> THEN Return(decode_strings(c, candidates)) ELSE None

(***************************************************************************)
(* base64.b64encode and base64.b64decode (binascii.a2b_base64, not strict) *)
(* of the standard library, by their results.                              *)
(***************************************************************************)
STD_B64 == B("ABCDEFGHIJKLMNOPQRSTUVWXYZabcdefghijklmnopqrstuvwxyz0123456789+/")
PAD == Ord("=")
BAR == Ord("|")

\* The 6-bit value of each byte that is a symbol of the standard alphabet,
\* -1 for every other byte.
StdVal == [c \in 0..255 |-> FindByte(STD_B64, c)]

ByteAt(s, i) == IF i <= Len(s) THEN s[i] ELSE 0

\* With padding: 4 symbols for every 3 bytes started.
b64encode(s) ==
    LET n == Len(s)
        v(g) == ByteAt(s, 3 * g + 1) * 65536 + ByteAt(s, 3 * g + 2) * 256
                + ByteAt(s, 3 * g + 3)
        sym(j) == LET g == j \div 4
                      t == j % 4
                  IN  IF 3 * g + t > n THEN PAD
                      ELSE STD_B64[((v(g) \div (CASE t = 0 -> 262144 [] t = 1 -> 4096
                                                  [] t = 2 -> 64 [] OTHER -> 1)) % 64) + 1]
    IN  [j \in 1..(4 * ((n + 2) \div 3)) |-> sym(j - 1)]

\* Bytes outside the alphabet are skipped.  Decoding stops at the pad byte
\* that completes a quad (the second pad after 2 symbols, the first after
\* 3); symbols left over at the end of the input raise binascii.Error.
b64decode(s) ==
    LET valid == {i \in 1..Len(s) : StdVal[s[i]] >= 0}
        quad(p) == Cardinality({i \in valid : i < p}) % 4
        lastv(p) == IF \E i \in valid : i < p
                    THEN CHOOSE i \in valid : i < p /\ \A j \in valid : j < p => j <= i
                    ELSE 0
        pads(p) == Cardinality({j \in (lastv(p) + 1)..p : s[j] = PAD})
        stops == {p \in 1..Len(s) :
                     s[p] = PAD /\ quad(p) >= 2 /\ quad(p) + pads(p) >= 4}
        end == IF stops = {} THEN Len(s) ELSE Min(stops) - 1
        used == SelectSeq(SubSeq(s, 1, end), LAMBDA c : StdVal[c] >= 0)
        m == Len(used)
        val(i) == StdVal[used[i]]
        byte(j) == LET g == 4 * (j \div 3)
                   IN  CASE j % 3 = 0 -> (val(g + 1) * 4 + val(g + 2) \div 16) % 256
                         [] j % 3 = 1 -> ((val(g + 2) % 16) * 16 + val(g + 3) \div 4) % 256
                         [] OTHER -> ((val(g + 3) % 4) * 64 + val(g + 4)) % 256
        count == 3 * (m \div 4) + (CASE m % 4 = 2 -> 1 [] m % 4 = 3 -> 2 [] OTHER -> 0)
    IN  IF stops = {} /\ m % 4 # 0 THEN Raise("binascii.Error")
        ELSE Return([j \in 1..count |-> byte(j - 1)])

(***************************************************************************)
(* decrypt_payload                                                         *)
(***************************************************************************)
XorBytes(s, xor_key) == [i \in 1..Len(s) |-> BitXor(s[i], xor_key)]

decrypt_payload(p, xor_key) ==
    LET decoded == b64decode(p)
    IN  IF Raised(decoded) THEN decoded
        ELSE Return(XorBytes(decoded.val, xor_key))

(***************************************************************************)
(* bytes.split(sep) and str.split(sep) for a one-byte separator.           *)
(***************************************************************************)
Split(s, sep) ==
    LET at == {i \in 1..Len(s) : s[i] = sep}
        \* position of the k-th separator; 0 and Len(s) + 1 bound the ends
        nth(k) == IF k = 0 THEN 0
                  ELSE IF k > Cardinality(at) THEN Len(s) + 1
                  ELSE CHOOSE i \in at : Cardinality({j \in at : j < i}) = k - 1
    IN  [k \in 1..(Cardinality(at) + 1) |-> SubSeq(s, nth(k - 1) + 1, nth(k) - 1)]

(***************************************************************************)
(* unpack_au3_payload                                                      *)
(***************************************************************************)
\* for char in xor_key: final_xor_key ^= ord(char)
RECURSIVE XorFold(_, _)
XorFold(acc, str) ==
    IF str = <<>> THEN acc ELSE XorFold(BitXor(acc, Head(str)), Tail(str))

\* splitted[1][1:9]
KeySlice(seg) == SubSeq(seg, 2, IF Len(seg) < 9 THEN Len(seg) ELSE 9)

unpack_au3_payload(c) ==
    LET splitted == Split(c, BAR)
    IN  IF Len(splitted) < 2 THEN Raise("IndexError")
        ELSE LET secret == Utf8Decode(KeySlice(splitted[2]))
             IN  IF Raised(secret) THEN None
                 ELSE LET xor_key == B("a") \o secret.val
                          folded == XorFold(Len(xor_key), xor_key)
                          \* ~x & 255
                          final_xor_key == 255 - (folded % 256)
                      IN  IF Len(splitted) < 3 THEN Raise("IndexError")
                          ELSE LET r == decrypt_payload(splitted[3], final_xor_key)
                               IN  IF Raised(r) THEN None ELSE r

(***************************************************************************)
(* find_darkgate_payload_bruteforce                                        *)
(***************************************************************************)
\* b64 of the loop body, for every key.
EncodedSignature == [k \in 0..255 |-> b64encode(XorBytes(PE_START_BYTES, k))]

\* TryKey without the `if not offset: continue` test.
TryKey_AnyOffset(c, xor_key) ==
    LET b64 == EncodedSignature[xor_key]
        offset == Find(c, b64)
    IN  IF offset < 0 THEN None
        ELSE LET b64_string_end == FindByte(SubSeq(c, offset + 1, Len(c)), BAR)
             IN  IF b64_string_end < 0 THEN None
                 ELSE IF b64_string_end = 0 THEN None
                 ELSE LET p == SubSeq(c, offset + 1, offset + b64_string_end)
                          r == decrypt_payload(p, xor_key)
                      IN  IF Raised(r) THEN None ELSE r

\* One iteration of `for xor_key in range(256)`: the value it returns, or
\* None when it goes on to the next key.
TryKey(c, xor_key) ==
    LET b64 == EncodedSignature[xor_key]
        offset == Find(c, b64)
    IN  IF offset < 0 THEN None
        ELSE IF offset = 0 THEN None
        ELSE LET b64_string_end == FindByte(SubSeq(c, offset + 1, Len(c)), BAR)
             IN  IF b64_string_end < 0 THEN None
                 ELSE IF b64_string_end = 0 THEN None
                 ELSE LET p == SubSeq(c, offset + 1, offset + b64_string_end)
                          r == decrypt_payload(p, xor_key)
                      IN  IF Raised(r) THEN None ELSE r

\* The loop returns at the first key whose iteration returns.
find_darkgate_payload_bruteforce(c) ==
    LET returning == {k \in 0..255 : ~TryKey(c, k).none}
    IN  IF returning = {} THEN None ELSE TryKey(c, Min(returning))

(***************************************************************************)
(* parse_config_value, get_config.  The strings are ASCII (decode_strings  *)
(* keeps nothing else), so \d is [0-9] and \w is [A-Za-z0-9_].             *)
(***************************************************************************)
\* The three types of a configuration value, and the list of C2 servers.
VBool(x) == [t |-> "bool", b |-> x, n |-> 0, s |-> <<>>]
VInt(x) == [t |-> "int", b |-> FALSE, n |-> x, s |-> <<>>]
VStr(x) == [t |-> "str", b |-> FALSE, n |-> 0, s |-> x]
VList(x) == [t |-> "list", b |-> FALSE, n |-> 0, s |-> x]

Digits == Range(B("0123456789"))
WordChars == Range(B("ABCDEFGHIJKLMNOPQRSTUVWXYZabcdefghijklmnopqrstuvwxyz0123456789_"))
\* The ASCII characters str.strip() removes.
Whitespace == {9, 10, 11, 12, 13, 28, 29, 30, 31, 32}

\* A dictionary key: a fixed name, or "flag_" followed by the index text.
Key(name) == <<name, <<>>>>
FlagKey(index) == <<"flag_", index>>

EmptyDict == [k \in {} |-> VBool(FALSE)]
Put(d, k, v) == [x \in (DOMAIN d) \cup {k} |-> IF x = k THEN v ELSE d[x]]

\* int(value) for a string of digits.
RECURSIVE ParseInt(_, _)
ParseInt(acc, str) ==
    IF str = <<>> THEN acc
    ELSE ParseInt(10 * acc + (Head(str) - Ord("0")), Tail(str))

\* str.isnumeric() on an ASCII string.
IsNumeric(str) == str # <<>> /\ \A i \in 1..Len(str) : str[i] \in Digits

parse_config_value(value) ==
    IF value = B("No") THEN VBool(FALSE)
    ELSE IF value = B("Yes") THEN VBool(TRUE)
    ELSE IF IsNumeric(value) THEN VInt(ParseInt(0, value))
    ELSE VStr(value)

config_flag_mapping ==
    (B("0") :> "c2_port") @@ (B("1") :> "startup_persistence") @@
    (B("2") :> "rootkit") @@ (B("3") :> "anti_vm") @@
    (B("4") :> "min_disk") @@ (B("5") :> "check_disk") @@
    (B("6") :> "anti_analysis") @@ (B("7") :> "min_ram") @@
    (B("8") :> "check_ram") @@ (B("9") :> "check_xeon") @@
    (B("10") :> "internal_mutex") @@ (B("11") :> "crypter_rawstub") @@
    (B("12") :> "crypter_dll") @@ (B("13") :> "crypter_au3") @@
    (B("15") :> "crypto_key") @@ (B("16") :> "c2_ping_interval") @@
    (B("17") :> "anti_debug")

\* End (exclusive) of the run of bytes of class cls starting at position i.
RunEnd(str, i, cls) ==
    Min({k \in i..(Len(str) + 1) : k > Len(str) \/ str[k] \notin cls})

\* re.findall(r"(\d+)=(\w+)", str) from 1-based position i: the pairs
\* <<digits, word>>.  A match starts at the first digit of a run, takes the
\* whole run, "=", and the whole run of word characters that follows; a run
\* of digits not followed by "=" and a word character holds no match.
RECURSIVE FindTokens(_, _)
FindTokens(str, i) ==
    LET d == Min({k \in i..(Len(str) + 1) : k > Len(str) \/ str[k] \in Digits})
    IN  IF d > Len(str) THEN <<>>
        ELSE LET e == RunEnd(str, d, Digits)
             IN  IF e + 1 <= Len(str) /\ str[e] = Ord("=") /\ str[e + 1] \in WordChars
                 THEN LET f == RunEnd(str, e + 1, WordChars)
                      IN  <<<<SubSeq(str, d, e - 1), SubSeq(str, e + 1, f - 1)>>>>
                          \o FindTokens(str, f)
                 ELSE FindTokens(str, e)

\* str.strip(chars)
Strip(str, chars) ==
    LET keep == {i \in 1..Len(str) : str[i] \notin chars}
    IN  IF keep = {} THEN <<>>
        ELSE SubSeq(str, Min(keep), CHOOSE i \in keep : \A j \in keep : j <= i)

\* Remove dropping the first element whatever it is.
Remove_Head(list, x) == Tail(list)

\* list.remove(x): the list without the first occurrence of x; the caller
\* has checked that x occurs.
Remove(list, x) ==
    LET i == Min({k \in 1..Len(list) : list[k] = x})
    IN  SubSeq(list, 1, i - 1) \o SubSeq(list, i + 1, Len(list))

\* The inner loop over the tokens of a flag-list string.
RECURSIVE StoreTokens(_, _)
StoreTokens(result, items) ==
    IF items = <<>> THEN result
    ELSE LET item == Head(items)
             k == IF item[1] \in DOMAIN config_flag_mapping
                  THEN Key(config_flag_mapping[item[1]])
                  ELSE FlagKey(item[1])
         IN  StoreTokens(Put(result, k, parse_config_value(item[2])), Tail(items))

\* The body of `for string in strings` applied to result: the dictionary
\* after it, or the ValueError of list.remove.
ConfigStep(result, string) ==
    IF Contains(string, B("1=Yes")) \/ Contains(string, B("1=No"))
    THEN Return(StoreTokens(result, FindTokens(string, 1)))
    ELSE IF StartsWith(string, B("http://")) \/ StartsWith(string, B("https://"))
    THEN LET split_string == Split(Strip(Strip(string, {0}), Whitespace), BAR)
         IN  IF Len(split_string) > 1
             THEN IF \E i \in 1..Len(split_string) : split_string[i] = <<>>
                  THEN Return(Put(result, Key("c2_servers"),
                                  VList(Remove(split_string, <<>>))))
                  ELSE Raise("ValueError")
             ELSE Return(result)
    ELSE Return(result)

RECURSIVE ConfigLoop(_, _)
ConfigLoop(result, strs) ==
    IF strs = <<>> THEN Return(result)
    ELSE LET r == ConfigStep(result, Head(strs))
         IN  IF Raised(r) THEN r ELSE ConfigLoop(r.val, Tail(strs))

get_config(strs) == ConfigLoop(EmptyDict, strs)

(***************************************************************************)
(* analyze_file: the branch of the if / elif chain.                        *)
(***************************************************************************)
MIME_PE == B("application/vnd.microsoft.portable-executable")
MIME_MSI == B("application/x-msi")
MIME_CAB == B("application/vnd.ms-cab-compressed")
MIME_TEXT == B("text/plain")
FAMILY_MARKER == B("DarkGate")
MSI_WRAPPER_MARKER == B("Wrapped using MSI Wrapper from www.exemsi.com")

\* ContainerKind without the test for the family marker.
ContainerKind_NoMarker(mime_type, c) ==
    IF Contains(mime_type, MIME_PE) /\ StartsWith(c, PE_START_BYTES)
    THEN "PortableExecutable"
    ELSE IF Contains(mime_type, MIME_MSI) /\ Contains(c, MSI_WRAPPER_MARKER)
    THEN "InstallerWrapped"
    ELSE IF Contains(mime_type, MIME_CAB)
    THEN "ArchiveWrapped"
    ELSE IF Contains(mime_type, MIME_TEXT) /\ Contains(c, AU3_MAGIC_BYTES)
    THEN "CompiledScript"
    ELSE "Unknown"

ContainerKind(mime_type, c) ==
    IF /\ Contains(mime_type, MIME_PE)
       /\ StartsWith(c, PE_START_BYTES)
       /\ Contains(c, FAMILY_MARKER)
    THEN "PortableExecutable"
    ELSE IF Contains(mime_type, MIME_MSI) /\ Contains(c, MSI_WRAPPER_MARKER)
    THEN "InstallerWrapped"
    ELSE IF Contains(mime_type, MIME_CAB)
    THEN "ArchiveWrapped"
    ELSE IF Contains(mime_type, MIME_TEXT) /\ Contains(c, AU3_MAGIC_BYTES)
    THEN "CompiledScript"
    ELSE "Unknown"

(***************************************************************************)
(* Inputs.  encode_with_alphabet is the encoder the decoder inverts: 6     *)
(* bits per symbol, 4 symbols per 3 bytes, most significant first.         *)
(***************************************************************************)
encode_with_alphabet(b, A) ==
    LET v(g) == b[3 * g + 1] * 65536 + b[3 * g + 2] * 256 + b[3 * g + 3]
        sym(j) == LET t == j % 4
                  IN  A[((v(j \div 4) \div (CASE t = 0 -> 262144 [] t = 1 -> 4096
                                              [] t = 2 -> 64 [] OTHER -> 1)) % 64) + 1]
    IN  [j \in 1..(4 * (Len(b) \div 3)) |-> sym(j - 1)]

\* An alphabet as DarkGate samples carry it, and two other orders.
DG_ALPHABET == B("zLAxuU0kQKf3sWE7ePRO2imyg9GSpVoYC6rhlX48ZHnvjJDBNFtMd1I5acwbqT+=")
PLAIN_ALPHABET == B("ABCDEFGHIJKLMNOPQRSTUVWXYZabcdefghijklmnopqrstuvwxyz0123456789+=")
Rotate(A, k) == [i \in 1..Len(A) |-> A[((i - 1 + k) % Len(A)) + 1]]

Enc(text) == encode_with_alphabet(B(text), DG_ALPHABET)
NUL == <<0>>

\* Decrypted executables.
ExeHead == Cat(<<PE_START_BYTES, FAMILY_MARKER, NUL>>)
ExeFull == Cat(<<ExeHead, DG_ALPHABET, NUL, Enc("0=8|1=Yes"), NUL, Enc("http://a|"), NUL>>)
ExeBadC2 == Cat(<<ExeHead, DG_ALPHABET, NUL, Enc("http://a|bcd"), NUL>>)
ExeEmptyConfig == Cat(<<ExeHead, DG_ALPHABET, NUL, Enc("hello!"), NUL>>)
ExeNoAlphabet == Cat(<<ExeHead, Enc("0=8|1=Yes"), NUL>>)
ExeNoStrings == Cat(<<ExeHead, DG_ALPHABET, NUL>>)
\* The same header without the family marker.
ExeOtherFamily == Cat(<<PE_START_BYTES, NUL, DG_ALPHABET, NUL, Enc("0=8|1=Yes"), NUL>>)

\* An encrypted executable as a script embeds it.
Blob(exe, xor_key) == b64encode(XorBytes(exe, xor_key))

\* Scripts.  The secret 12345678 derives the key 0x9F; a secret that is
\* not UTF-8 and an empty third segment both leave the payload to the
\* key search, which finds the key 0x37.
Secret == B("|x12345678|")
BadSecret == Cat(<<B("|x"), <<255>>, B("2345678|")>>)
ScriptFull == Cat(<<AU3_MAGIC_BYTES, Secret, Blob(ExeFull, 159), B("|")>>)
ScriptBadC2 == Cat(<<AU3_MAGIC_BYTES, Secret, Blob(ExeBadC2, 159), B("|")>>)
ScriptWrongKey == Cat(<<AU3_MAGIC_BYTES, Secret, Blob(ExeFull, 55), B("|")>>)
ScriptSearch == Cat(<<AU3_MAGIC_BYTES, BadSecret, B("QUJD|"), Blob(ExeFull, 55), B("|")>>)
ScriptEmptySegment == Cat(<<AU3_MAGIC_BYTES, Secret, B("|"), Blob(ExeEmptyConfig, 55), B("|")>>)
ScriptNothing == Cat(<<AU3_MAGIC_BYTES, BadSecret, B("QUJD|")>>)
ScriptNoBar == Cat(<<AU3_MAGIC_BYTES, B(" "), Blob(ExeFull, 55)>>)
ScriptOneBar == Cat(<<AU3_MAGIC_BYTES, B(" "), Blob(ExeFull, 55), B("|")>>)

Scripts == {ScriptFull, ScriptBadC2, ScriptWrongKey, ScriptSearch,
            ScriptEmptySegment, ScriptNothing, ScriptNoBar, ScriptOneBar}
Executables == {ExeFull, ExeBadC2, ExeEmptyConfig, ExeNoAlphabet, ExeNoStrings,
                ExeOtherFamily}
Samples == Scripts \cup Executables \cup {MSI_WRAPPER_MARKER, B("hello")}

Mimes == {MIME_PE, MIME_MSI, MIME_CAB, MIME_TEXT,
          B("application/x-dosexec"), B("application/octet-stream")}

\* What the 7z extraction of an installer or an archive can hand back: a
\* file that holds the script magic, or None (tool failure, no such file).
Extracted == {None} \cup {Return(c) : c \in {ScriptFull, ScriptSearch, ScriptOneBar}}

(***************************************************************************)
(* analyze_file, one action for each call it makes.  A trace entry records *)
(* the stage, the bytes it was called on and whether it handed back a      *)
(* payload (a truthy value).                                               *)
(***************************************************************************)
Stage(name, input, yielded) == [stage |-> name, input |-> input, yielded |-> yielded]

\* The variables of the single-function specifications, unused here.
Idle == raw = <<>> /\ data = <<>> /\ table = <<>> /\ ret = None
NoPipe ==
    /\ mime = <<>> /\ content = <<>> /\ include_strings = FALSE /\ kind = ""
    /\ intermediate = None /\ payload = None /\ strings = None
    /\ config = EmptyDict /\ exit_code = -1 /\ stdout = <<>> /\ trace = <<>>

Init ==
    /\ pc = "detect"
    /\ mime \in Mimes
    /\ content \in Samples
    /\ include_strings \in BOOLEAN
    /\ kind = ""
    /\ intermediate = None
    /\ payload = None
    /\ strings = None
    /\ config = EmptyDict
    /\ exit_code = -1
    /\ stdout = <<>>
    /\ trace = <<>>
    /\ Idle

\* Lines 333-365: the branch taken, up to the first call of the branch.
Detect ==
    /\ pc = "detect"
    /\ kind' = ContainerKind(mime, content)
    /\ trace' = Append(trace, Stage("FormatDetector", content, FALSE))
    /\ payload' = IF kind' = "PortableExecutable" THEN Return(content) ELSE payload
    /\ intermediate' = IF kind' = "CompiledScript" THEN Return(content) ELSE intermediate
    /\ pc' = CASE kind' = "PortableExecutable" -> "check"
               [] kind' = "InstallerWrapped" -> "unpack_msi"
               [] kind' = "ArchiveWrapped" -> "unpack_cab"
               [] kind' = "CompiledScript" -> "unpack_au3"
               [] OTHER -> "check"
    /\ UNCHANGED <<mime, content, include_strings, strings, config, exit_code,
                   stdout, raw, data, table, ret>>

\* intermediate_payload = unpack_msi_wrapped_payload(filename)
UnpackMsi ==
    /\ pc = "unpack_msi"
    /\ \E r \in Extracted :
          /\ intermediate' = r
          /\ trace' = Append(trace, Stage("ContainerUnpacker", content, FALSE))
          /\ pc' = IF Truthy(r) THEN "unpack_au3" ELSE "check"
    /\ UNCHANGED <<mime, content, include_strings, kind, payload, strings, config,
                   exit_code, stdout, raw, data, table, ret>>

\* intermediate_payload = unpack_cab_wrapped_payload(filename)
UnpackCab ==
    /\ pc = "unpack_cab"
    /\ \E r \in Extracted :
          /\ intermediate' = r
          /\ trace' = Append(trace, Stage("ContainerUnpacker", content, FALSE))
          /\ pc' = IF Truthy(r) THEN "unpack_au3" ELSE "check"
    /\ UNCHANGED <<mime, content, include_strings, kind, payload, strings, config,
                   exit_code, stdout, raw, data, table, ret>>

\* payload = unpack_au3_payload(...); an IndexError is caught nowhere and
\* ends the process with a traceback and exit status 1.
UnpackAu3 ==
    /\ pc = "unpack_au3"
    /\ LET r == unpack_au3_payload(intermediate.val)
       IN  /\ trace' = Append(trace, Stage("ScriptPayloadDecoder", intermediate.val, Truthy(r)))
           /\ payload' = IF Raised(r) THEN payload ELSE r
           /\ exit_code' = IF Raised(r) THEN 1 ELSE exit_code
           /\ pc' = IF Raised(r) THEN "crashed"
                    ELSE IF Truthy(r) THEN "check" ELSE "bruteforce"
    /\ UNCHANGED <<mime, content, include_strings, kind, intermediate, strings,
                   config, stdout, raw, data, table, ret>>

\* if not payload: payload = find_darkgate_payload_bruteforce(...)
BruteForce ==
    /\ pc = "bruteforce"
    /\ payload' = find_darkgate_payload_bruteforce(intermediate.val)
    /\ trace' = Append(trace, Stage("BruteForceKeyRecovery", intermediate.val, Truthy(payload')))
    /\ pc' = "check"
    /\ UNCHANGED <<mime, content, include_strings, kind, intermediate, strings,
                   config, exit_code, stdout, raw, data, table, ret>>

\* if payload: result = perform_string_extraction(payload); without a
\* result, sys.exit(1).
StringExtraction ==
    /\ pc = "check"
    /\ Truthy(payload)
    /\ strings' = perform_string_extraction(payload.val)
    /\ trace' = Append(trace, Stage("CustomBase64Codec", payload.val, FALSE))
    /\ pc' = IF Truthy(strings') THEN "get_config" ELSE "done"
    /\ exit_code' = IF Truthy(strings') THEN exit_code ELSE 1
    /\ UNCHANGED <<mime, content, include_strings, kind, intermediate, payload,
                   config, stdout, raw, data, table, ret>>

\* else: sys.exit(1)
NoPayload ==
    /\ pc = "check"
    /\ ~Truthy(payload)
    /\ exit_code' = 1
    /\ pc' = "done"
    /\ UNCHANGED <<mime, content, include_strings, kind, intermediate, payload,
                   strings, config, stdout, trace, raw, data, table, ret>>

\* config = get_config(result), the optional strings key, print; the
\* ValueError of get_config is caught nowhere.
GetConfig ==
    /\ pc = "get_config"
    /\ LET r == get_config(strings.val)
       IN  /\ trace' = Append(trace, Stage("ConfigParser", payload.val, FALSE))
           /\ config' = IF Raised(r) THEN config
                        ELSE IF include_strings
                        THEN Put(r.val, Key("strings"), VList(strings.val))
                        ELSE r.val
           /\ stdout' = IF Raised(r) THEN stdout ELSE Append(stdout, config')
           /\ exit_code' = IF Raised(r) THEN 1 ELSE 0
           /\ pc' = IF Raised(r) THEN "crashed" ELSE "done"
    /\ UNCHANGED <<mime, content, include_strings, kind, intermediate, payload,
                   strings, raw, data, table, ret>>

Next ==
    \/ Detect
    \/ UnpackMsi
    \/ UnpackCab
    \/ UnpackAu3
    \/ BruteForce
    \/ StringExtraction
    \/ NoPayload
    \/ GetConfig

Spec == Init /\ [][Next]_vars

(***************************************************************************)
(* Properties of analyze_file.                                             *)
(***************************************************************************)
Terminated == pc \in {"done", "crashed"}

\* sub occurs in s / s begins with sub, stated on slices.
Occurs(s, sub) ==
    \E i \in 1..(Len(s) - Len(sub) + 1) : SubSeq(s, i, i + Len(sub) - 1) = sub
BeginsWith(s, sub) == Len(s) >= Len(sub) /\ SubSeq(s, 1, Len(sub)) = sub

\* C1: every run ends in one of two outcomes: a non-zero exit status and
\* nothing printed when no payload was located or no strings were extracted
\* from it, and otherwise exit status 0 with exactly one configuration
\* object printed.
C1_ExitContract ==
    Terminated =>
        IF Truthy(payload) /\ Truthy(strings)
        THEN exit_code = 0 /\ Len(stdout) = 1
        ELSE exit_code # 0 /\ stdout = <<>>

StageRank(name) ==
    CASE name = "FormatDetector" -> 1
      [] name = "ContainerUnpacker" -> 2
      [] name = "ScriptPayloadDecoder" -> 3
      [] name = "BruteForceKeyRecovery" -> 4
      [] name = "CustomBase64Codec" -> 5
      [] name = "ConfigParser" -> 6

\* C2: the stages run in the order FormatDetector, ContainerUnpacker,
\* ScriptPayloadDecoder, BruteForceKeyRecovery, CustomBase64Codec,
\* ConfigParser; the key search runs exactly when the script decoder ran on
\* the same content and yielded no payload, never for a portable
\* executable; the codec and the parser run only once a payload exists.
C2_StageOrder ==
    /\ \A i, j \in 1..Len(trace) :
          i < j => StageRank(trace[i].stage) < StageRank(trace[j].stage)
    /\ \A i \in 1..Len(trace) :
          trace[i].stage = "BruteForceKeyRecovery" =>
              /\ kind # "PortableExecutable"
              /\ i > 1
              /\ trace[i - 1].stage = "ScriptPayloadDecoder"
              /\ ~trace[i - 1].yielded
              /\ trace[i - 1].input = trace[i].input
    /\ \A i \in 1..Len(trace) :
          (trace[i].stage = "ScriptPayloadDecoder" /\ ~trace[i].yielded) =>
              IF i = Len(trace) THEN pc = "bruteforce"
              ELSE trace[i + 1].stage = "BruteForceKeyRecovery"
    /\ \A i \in 1..Len(trace) :
          trace[i].stage \in {"CustomBase64Codec", "ConfigParser"} => Truthy(payload)

\* The script contents the decoder cannot decode: fewer than 3 segments, a
\* secret that is not ASCII, or a third segment that is not base64.
CannotDecode(c) ==
    LET splitted == Split(c, BAR)
    IN  \/ Len(splitted) < 3
        \/ \E i \in 1..Len(KeySlice(splitted[2])) : KeySlice(splitted[2])[i] >= 128
        \/ Raised(b64decode(splitted[3]))

\* C3: when unpack_au3_payload cannot decode the content it returns no
\* payload, the run is not aborted, and the key search is run next on the
\* same content.
C3_DecoderFailureFallsBack ==
    \A i \in 1..Len(trace) :
        (trace[i].stage = "ScriptPayloadDecoder" /\ CannotDecode(trace[i].input)) =>
            /\ pc # "crashed"
            /\ ~trace[i].yielded
            /\ IF i = Len(trace) THEN pc = "bruteforce"
               ELSE /\ trace[i + 1].stage = "BruteForceKeyRecovery"
                    /\ trace[i + 1].input = trace[i].input

IsPE(m, c) == Occurs(m, MIME_PE) /\ BeginsWith(c, PE_START_BYTES) /\ Occurs(c, FAMILY_MARKER)
IsMSI(m, c) == Occurs(m, MIME_MSI) /\ Occurs(c, MSI_WRAPPER_MARKER)
IsCAB(m, c) == Occurs(m, MIME_CAB)
IsAU3(m, c) == Occurs(m, MIME_TEXT) /\ Occurs(c, AU3_MAGIC_BYTES)

\* The kind decided, given whether the input counts as a portable executable.
KindIs(pe) ==
    /\ kind \in {"PortableExecutable", "InstallerWrapped", "ArchiveWrapped",
                 "CompiledScript", "Unknown"}
    /\ kind = "PortableExecutable" <=> pe
    /\ kind = "InstallerWrapped" <=> ~pe /\ IsMSI(mime, content)
    /\ kind = "ArchiveWrapped" <=> ~pe /\ ~IsMSI(mime, content) /\ IsCAB(mime, content)
    /\ kind = "CompiledScript" <=>
           ~pe /\ ~IsMSI(mime, content) /\ ~IsCAB(mime, content) /\ IsAU3(mime, content)

\* C9: the classification is total with the first match winning:
\* PortableExecutable if the MIME type is that of a portable executable and
\* the content begins with the 15-byte signature and contains the family
\* marker; InstallerWrapped if the MIME type is an installer package and the
\* wrapper marker is present; ArchiveWrapped if the MIME type is a cabinet
\* archive; CompiledScript if the MIME type is plain text and the script
\* magic is present; Unknown otherwise.
C9_Classification == kind # "" => KindIs(IsPE(mime, content))

\* C9 as stated: PortableExecutable needs the signature and the family
\* marker and no other condition.
C9_Original ==
    kind # "" => KindIs(BeginsWith(content, PE_START_BYTES) /\ Occurs(content, FAMILY_MARKER))

\* A sample with signature and marker whose MIME type is not that of a
\* portable executable has been classified, as Unknown.
C9_Witness ==
    /\ kind = "Unknown"
    /\ content = ExeFull
    /\ mime = B("application/x-dosexec")

(***************************************************************************)
(* base64_decode on its own: every string candidate of up to MaxSymbols    *)
(* symbols over a few symbols, under a few alphabets; and the decoding of  *)
(* encoded byte strings of up to MaxTriples triples.                       *)
(***************************************************************************)
MaxSymbols == 8
MaxTriples == 2

Alphabets == {DG_ALPHABET, Rotate(DG_ALPHABET, 1), PLAIN_ALPHABET, STD_B64}
\* q and = are symbols of every alphabet but the standard one, which has /.
SymbolUniverse == Range(B("q=/"))
ByteUniverse == {0, 165, 255}

InitDecode ==
    /\ pc = "base64_decode"
    /\ table \in Alphabets
    /\ \E n \in MIN_STRING_LENGTH..MaxSymbols : data \in [1..n -> SymbolUniverse]
    /\ raw = <<>>
    /\ ret = None
    /\ NoPipe

InitRoundTrip ==
    /\ pc = "base64_decode"
    /\ table \in Alphabets
    /\ \E k \in 0..MaxTriples : raw \in [1..(3 * k) -> ByteUniverse]
    /\ data = encode_with_alphabet(raw, table)
    /\ ret = None
    /\ NoPipe

Base64Decode ==
    /\ pc = "base64_decode"
    /\ ret' = base64_decode(data, table)
    /\ pc' = "done"
    /\ UNCHANGED <<raw, data, table>>
    /\ UNCHANGED pipe

SpecDecode == InitDecode /\ [][Base64Decode]_vars
SpecRoundTrip == InitRoundTrip /\ [][Base64Decode]_vars

(***************************************************************************)
(* get_alphabet_candidates on its own: one 64-byte run (a rotation of an   *)
(* alphabet, or an alphabet with one byte replaced) between a prefix and a *)
(* suffix.                                                                 *)
(***************************************************************************)
MaxRotation == 8

Replace(A, i, c) == [A EXCEPT ![i] = c]
Runs ==
    {Rotate(A, k) : A \in {DG_ALPHABET, PLAIN_ALPHABET, STD_B64}, k \in 0..MaxRotation}
    \cup {Replace(DG_ALPHABET, i, c) : i \in {1, 30, ALPHABET_LENGTH}, c \in Range(B("A/="))}
Prefixes == {<<>>, NUL, B("A")}
Suffixes == {<<>>, B("B"), NUL \o DG_ALPHABET}

InitAlphabet ==
    /\ pc = "get_alphabet_candidates"
    /\ \E pre \in Prefixes, run \in Runs, post \in Suffixes : data = pre \o run \o post
    /\ raw = <<>>
    /\ table = <<>>
    /\ ret = None
    /\ NoPipe

GetAlphabetCandidates ==
    /\ pc = "get_alphabet_candidates"
    /\ ret' = Return(get_alphabet_candidates(data))
    /\ pc' = "done"
    /\ UNCHANGED <<raw, data, table>>
    /\ UNCHANGED pipe

SpecAlphabet == InitAlphabet /\ [][GetAlphabetCandidates]_vars

(***************************************************************************)
(* get_config on its own: every list of up to MaxStrings decoded strings.  *)
(***************************************************************************)
MaxStrings == 2

ConfigStrings ==
    {B("0=4444|1=Yes|16=60"), B("1=No|14=ab_c|01=7"), B("0=80 1=Yes 0=x 9=Nope"),
     B("5=Yes|18=007"), B("11=Yes2=No"),
     B("http://a|http://b|"), B("https://c|"), B("http://a|b"),
     B("|http://a.example/gate|http://b.example/gate"),
     B("http://a.example/gate|http://b.example/gate|"),
     B(" http://a|"), B("http://a||b|"), B("http://x|1=No|"), B("https://d"),
     B("http://a|b| ") \o NUL, B("http://a|b|") \o NUL \o B(" "), B("hello")}

InitConfig ==
    /\ pc = "get_config"
    /\ \E n \in 0..MaxStrings : data \in [1..n -> ConfigStrings]
    /\ raw = <<>>
    /\ table = <<>>
    /\ ret = None
    /\ NoPipe

CallGetConfig ==
    /\ pc = "get_config"
    /\ ret' = get_config(data)
    /\ pc' = "done"
    /\ UNCHANGED <<raw, data, table>>
    /\ UNCHANGED pipe

SpecConfig == InitConfig /\ [][CallGetConfig]_vars

(***************************************************************************)
(* find_darkgate_payload_bruteforce on its own: every content made of up   *)
(* to MaxPieces pieces.                                                    *)
(***************************************************************************)
MaxPieces == 4

PlainLow == PE_START_BYTES \o B("xyz")
PlainHigh == PE_START_BYTES \o B("abc")
\* Encrypted with the keys 0x05 and 0x37.
BlobLow == Blob(PlainLow, 5)
BlobHigh == Blob(PlainHigh, 55)
\* Encrypted with the key 0x03, its padding cut off: not decodable.
BlobCut == SubSeq(Blob(PE_START_BYTES \o B("abcd"), 3), 1, 26)
Pieces == {B("x"), B("|"), BlobLow, BlobHigh, B("x") \o BlobCut}

InitBrute ==
    /\ pc = "bruteforce"
    /\ \E n \in 0..MaxPieces : \E ps \in [1..n -> Pieces] : data = Cat(ps)
    /\ raw = <<>>
    /\ table = <<>>
    /\ ret = None
    /\ NoPipe

FindPayload ==
    /\ pc = "bruteforce"
    /\ ret' = find_darkgate_payload_bruteforce(data)
    /\ pc' = "done"
    /\ UNCHANGED <<raw, data, table>>
    /\ UNCHANGED pipe

SpecBrute == InitBrute /\ [][FindPayload]_vars

(***************************************************************************)
(* Claims about base64_decode.                                             *)
(***************************************************************************)
Indexed(d, T) == \A i \in 1..Len(d) : d[i] \in Range(T)
\* The 24-bit value of the w-th window (from 0), a missing symbol counting 0.
WindowValue(d, T, w) ==
    LET idx(t) == IF 4 * w + t <= Len(d) THEN FindByte(T, d[4 * w + t]) ELSE 0
    IN  idx(1) * 262144 + idx(2) * 4096 + idx(3) * 64 + idx(4)
\* The first n bytes of the big-endian windows.
WindowBytes(d, T, n) ==
    [j \in 1..n |->
        LET v == WindowValue(d, T, (j - 1) \div 3)
        IN  CASE (j - 1) % 3 = 0 -> v \div 65536
              [] (j - 1) % 3 = 1 -> (v \div 256) % 256
              [] OTHER -> v % 256]

\* C10: base64_decode takes the symbols four at a time; a full window yields
\* the three bytes of its 24-bit value; a last window of two or three symbols
\* yields the first two bytes of its zero-padded value; a last window of one
\* symbol, like a symbol that is not in the alphabet, raises ValueError.
C10_Windows ==
    pc = "done" =>
        LET full == Len(data) \div 4
            tail == Len(data) % 4
        IN  IF ~Indexed(data, table) \/ tail = 1
            THEN ret = Raise("ValueError")
            ELSE ret = Return(WindowBytes(data, table,
                                  3 * full + (IF tail = 0 THEN 0 ELSE 2)))

\* C10 as stated: a last window of one, two or three symbols yields two
\* bytes, and only a symbol missing from the alphabet makes the call fail.
C10_Original ==
    pc = "done" =>
        LET full == Len(data) \div 4
            tail == Len(data) % 4
        IN  IF ~Indexed(data, table)
            THEN Raised(ret)
            ELSE ret = Return(WindowBytes(data, table,
                                  3 * full + (IF tail = 0 THEN 0 ELSE 2)))

C10_Witness ==
    /\ pc = "done"
    /\ table = DG_ALPHABET
    /\ data = B("qq=q==")
    /\ ~Raised(ret)
    /\ Len(ret.val) = 5

\* C7: decoding the encoding of a byte string whose length is a multiple of
\* three, under the same alphabet of 64 distinct symbols, gives it back.
C7_RoundTrip ==
    pc = "done" => ret = Return(raw)

C7_Witness ==
    /\ pc = "done"
    /\ table = DG_ALPHABET
    /\ raw = <<255, 0, 165, 165, 255, 0>>
    /\ ret = Return(raw)

(***************************************************************************)
(* Claims about get_alphabet_candidates.                                   *)
(***************************************************************************)
AcceptedSymbols ==
    Range(B("ABCDEFGHIJKLMNOPQRSTUVWXYZabcdefghijklmnopqrstuvwxyz0123456789+="))
StandardSymbols == Range(STD_B64)

\* C5: of the 64-byte runs of base64-class bytes found in the content, the
\* candidates are exactly those made of A-Z, a-z, 0-9, + and = once each.
C5_Acceptance ==
    pc = "done" =>
        ret = Return(SelectSeq(REGEX_B64_ALPHABET_CANDIDATES(data),
                               LAMBDA run : Range(run) = AcceptedSymbols))

\* C5 as stated: the candidates are the permutations of the standard
\* alphabet A-Z, a-z, 0-9, + and /.
C5_Original ==
    pc = "done" =>
        ret = Return(SelectSeq(REGEX_B64_ALPHABET_CANDIDATES(data),
                               LAMBDA run : Range(run) = StandardSymbols))

C5_Witness ==
    /\ pc = "done"
    /\ data = NUL \o Rotate(DG_ALPHABET, 1) \o B("B")
    /\ ret = Return(<<Rotate(DG_ALPHABET, 1)>>)

(***************************************************************************)
(* Claims about get_config.                                                *)
(***************************************************************************)
IsFlagList(str) == Occurs(str, B("1=Yes")) \/ Occurs(str, B("1=No"))

\* The tokens of the flag-list strings of list, in the order met.
AllTokens(list) ==
    Cat([i \in 1..Len(list) |->
            IF IsFlagList(list[i]) THEN FindTokens(list[i], 1) ELSE <<>>])

\* The fixed table by index number; 14 has no name.
NamedIndices == (0..17) \ {14}
FieldNames ==
    <<"c2_port", "startup_persistence", "rootkit", "anti_vm", "min_disk",
      "check_disk", "anti_analysis", "min_ram", "check_ram", "check_xeon",
      "internal_mutex", "crypter_rawstub", "crypter_dll", "crypter_au3", "",
      "crypto_key", "c2_ping_interval", "anti_debug">>
Decimal(n) ==
    IF n < 10 THEN <<Ord("0") + n>>
    ELSE <<Ord("0") + (n \div 10), Ord("0") + (n % 10)>>
\* The field of an index as written in the token.
FieldOf(index) ==
    IF \E n \in NamedIndices : Decimal(n) = index
    THEN Key(FieldNames[(CHOOSE n \in NamedIndices : Decimal(n) = index) + 1])
    ELSE FlagKey(index)

RECURSIVE DecimalValue(_)
DecimalValue(word) ==
    IF word = <<>> THEN 0
    ELSE 10 * DecimalValue(SubSeq(word, 1, Len(word) - 1))
         + (word[Len(word)] - Ord("0"))
Converted(word) ==
    IF word = B("No") THEN VBool(FALSE)
    ELSE IF word = B("Yes") THEN VBool(TRUE)
    ELSE IF \A i \in 1..Len(word) : word[i] \in Digits THEN VInt(DecimalValue(word))
    ELSE VStr(word)

\* C8: for every list of strings get_config returns a dictionary whose
\* fields other than c2_servers are exactly the fields of the digits=word
\* tokens of the strings that contain 1=Yes or 1=No: the table's name for
\* the indices written 0..13 and 15..17, flag_<index> for any other index;
\* each holds the converted word of the last token of its field (No ->
\* false, Yes -> true, digits -> integer, otherwise the word).
C8_Flags ==
    pc = "done" =>
        /\ ~Raised(ret)
        /\ LET toks == AllTokens(data)
               field(i) == FieldOf(toks[i][1])
           IN  /\ \A i \in 1..Len(toks) : field(i) \in DOMAIN ret.val
               /\ \A k \in (DOMAIN ret.val) \ {Key("c2_servers")} :
                      \E i \in 1..Len(toks) :
                          /\ field(i) = k
                          /\ \A j \in (i + 1)..Len(toks) : field(j) # k
                          /\ ret.val[k] = Converted(toks[i][2])
               /\ data = <<B("0=4444|1=Yes|16=60")>> =>
                      ret.val = (Key("c2_port") :> VInt(4444))
                                @@ (Key("startup_persistence") :> VBool(TRUE))
                                @@ (Key("c2_ping_interval") :> VInt(60))

Scheme(str) == BeginsWith(str, B("http://")) \/ BeginsWith(str, B("https://"))
\* NUL bytes are trimmed first, whitespace after.
Trimmed(str) == Strip(Strip(str, {0}), Whitespace)
WithoutFirstEmpty(parts) ==
    LET i == Min({k \in 1..Len(parts) : parts[k] = <<>>})
    IN  [j \in 1..(Len(parts) - 1) |-> IF j < i THEN parts[j] ELSE parts[j + 1]]
Last(S) == CHOOSE i \in S : \A j \in S : j <= i

\* C6: a string counts for the C2 list when it holds neither 1=Yes nor 1=No,
\* begins, untrimmed, with http:// or https://, and its trimmed text splits
\* on | into more than one element.  If the elements of such a string hold
\* no empty element get_config raises ValueError; otherwise the last such
\* string sets c2_servers to its elements without the first empty one, and
\* without such a string there is no c2_servers.
C6_C2List ==
    pc = "done" =>
        LET parts(i) == Split(Trimmed(data[i]), BAR)
            lists == {i \in 1..Len(data) :
                         /\ ~IsFlagList(data[i])
                         /\ Scheme(data[i])
                         /\ Len(parts(i)) > 1}
            failing == {i \in lists : <<>> \notin Range(parts(i))}
        IN  IF failing # {}
            THEN ret = Raise("ValueError")
            ELSE /\ ~Raised(ret)
                 /\ IF lists = {}
                    THEN Key("c2_servers") \notin DOMAIN ret.val
                    ELSE /\ Key("c2_servers") \in DOMAIN ret.val
                         /\ ret.val[Key("c2_servers")]
                                = VList(WithoutFirstEmpty(parts(Last(lists))))

\* C6 as stated: a string that matches after trimming whitespace and NUL
\* bytes and splits into more than one element sets the C2 list to its
\* elements without the first; the string
\* "|http://a.example/gate|http://b.example/gate" yields the two servers.
C6_Original ==
    pc = "done" =>
        LET trimmed(i) == Strip(data[i], Whitespace \cup {0})
            parts(i) == Split(trimmed(i), BAR)
            lists == {i \in 1..Len(data) : Scheme(trimmed(i)) /\ Len(parts(i)) > 1}
        IN  /\ lists # {} =>
                /\ ~Raised(ret)
                /\ Key("c2_servers") \in DOMAIN ret.val
                /\ ret.val[Key("c2_servers")] = VList(Tail(parts(Last(lists))))
            /\ data = <<B("|http://a.example/gate|http://b.example/gate")>> =>
                /\ ~Raised(ret)
                /\ Key("c2_servers") \in DOMAIN ret.val
                /\ ret.val[Key("c2_servers")]
                       = VList(<<B("http://a.example/gate"), B("http://b.example/gate")>>)

C6_Witness ==
    /\ pc = "done"
    /\ data = <<B("http://a|http://b|"),
               B("http://a.example/gate|http://b.example/gate|")>>
    /\ ~Raised(ret)
    /\ ret.val[Key("c2_servers")]
           = VList(<<B("http://a.example/gate"), B("http://b.example/gate")>>)

(***************************************************************************)
(* Claims about find_darkgate_payload_bruteforce.                          *)
(***************************************************************************)
\* 1-based position of the first byte of the first occurrence of key k's
\* encoded signature in c, 0 when absent.
SignatureAt(c, k) == Find(c, EncodedSignature[k]) + 1
BarsAfter(c, p) == {j \in p..Len(c) : c[j] = BAR}
\* From the first occurrence of the signature up to the next | byte.
Span(c, k) == SubSeq(c, SignatureAt(c, k), Min(BarsAfter(c, SignatureAt(c, k))) - 1)
Usable(c, k) ==
    /\ SignatureAt(c, k) > 1
    /\ BarsAfter(c, SignatureAt(c, k)) # {}
    /\ ~Raised(b64decode(Span(c, k)))

\* C4: the result is that of the least key whose encoded signature first
\* occurs at an offset other than 0, is followed by a | byte, and whose span
\* from that occurrence to the | decodes as base64: the decoded span XORed
\* with the key.  There is no payload exactly when no key is such.  Content
\* holding, after one byte, the payload encoded with key 0x37 and a | yields
\* the plaintext.
C4_FirstUsableKey ==
    pc = "done" =>
        LET usable == {k \in 0..255 : Usable(data, k)}
        IN  /\ IF usable = {}
               THEN ret = None
               ELSE ret = Return(XorBytes(b64decode(Span(data, Min(usable))).val,
                                          Min(usable)))
            /\ data = Cat(<<B("x"), BlobHigh, B("|")>>) => ret = Return(PlainHigh)
            \* a key whose span does not decode is passed over
            /\ data = Cat(<<B("x") \o BlobCut, BlobHigh, B("|")>>) =>
                   ret = Return(PlainHigh)

\* C4 as stated: the result is that of the least key whose encoded signature
\* occurs anywhere in the content, and there is no payload only if no
\* signature occurs.
C4_Original ==
    pc = "done" =>
        LET occurring == {k \in 0..255 : SignatureAt(data, k) > 0}
        IN  IF occurring = {}
            THEN ret = None
            ELSE /\ ret # None
                 /\ BarsAfter(data, SignatureAt(data, Min(occurring))) # {} =>
                        LET span == b64decode(Span(data, Min(occurring)))
                        IN  ~Raised(span) =>
                                ret = Return(XorBytes(span.val, Min(occurring)))

\* Two keys are usable, 0x37 with the earlier signature and 0x05 with the
\* later one: the lower key's span is returned.
C4_Witness ==
    /\ pc = "done"
    /\ data = Cat(<<B("x"), BlobHigh, BlobLow, B("|")>>)
    /\ Usable(data, 5) /\ Usable(data, 55)
    /\ ret = Return(PlainLow)

=============================================================================
